---- MODULE Spec2Model ----
(***************************************************************************)
(* The adversarial search agent of src/game_agent.py: the three heuristic  *)
(* evaluators, depth-limited minimax, its alpha-beta variant, the Timeout  *)
(* guard at every node, and get_move (fixed depth and iterative            *)
(* deepening).                                                             *)
(*                                                                         *)
(* The Board is an external collaborator (isolation.Board); only the       *)
(* interface the agent consumes is modelled (spec.md section 6): ordered   *)
(* legal moves of a player, forecast of a move into a new board, the       *)
(* opponent, the blank cells, width and height.  Pieces move as knights.   *)
(*                                                                         *)
(* Scores are Python floats in the source.  Here a finite score is a       *)
(* fixed-point integer in units of 1/Unit, and float("inf") is the integer *)
(* Inf, larger than every finite score, so that <, >, <=, >=, max and min  *)
(* behave on it as they do on the float.                                   *)
(***************************************************************************)
EXTENDS Integers, Sequences, FiniteSets, TLC

VARIABLES
    game,               \* the board handed to the agent (never mutated)
    score,              \* self.score: the heuristic chosen at construction
    method,             \* self.method
    iterative,          \* self.iterative
    search_depth,       \* self.search_depth
    pc,                 \* position of get_move
    legal_moves,        \* the legal_moves argument of get_move
    curr_depth,         \* get_move local
    best_move_overall,  \* get_move local
    best_score_overall, \* get_move local
    best_round_score,   \* get_move local
    best_round_move,    \* get_move local
    ret,                \* what get_move returned
    last,               \* outcome of the latest top-level search call of get_move
    args,               \* arguments of the direct calls of minimax / alphabeta
    mm,                 \* outcome of the direct call of minimax
    ab                  \* outcome of the direct call of alphabeta

vars == <<game, score, method, iterative, search_depth, pc, legal_moves,
          curr_depth, best_move_overall, best_score_overall, best_round_score,
          best_round_move, ret, last, args, mm, ab>>

----------------------------------------------------------------------------
(* Bounds of the model *)

\* The cells that are still open or occupied by a piece when the agent is
\* asked for a move are among the first ArenaSize cells of CellOrder; every
\* other cell of the board was visited earlier in the game.
ArenaSize == 6

\* Largest search_depth given to the constructor, and largest depth of a
\* direct call of minimax / alphabeta.
MaxDepth == 3

----------------------------------------------------------------------------
(* Values *)

Inf == 1000000000

PosInf == Inf

NegInf == 0 - Inf

\* One unit of score in fixed point: divisible by every move count 1..8.
Unit == 840

\* The "no move" sentinel (-1, -1).
NoMove == <<-1, -1>>

\* The Python tuple (a, b) of two move values.  A coordinate pair is the
\* sequence of its two integers; a tuple that nests move values is written
\* as the concatenation of their integers, so a value is a single coordinate
\* pair exactly when its length is 2.
Tuple2(a, b) == a \o b

IsCoordinatePair(m) == Len(m) = 2

\* What a local holds before it is first assigned: a value of its type that
\* is no score, no depth and no move.  It is never read.
UnboundNumber == 0 - Inf - 1

UnboundMove == <<>>

Max(a, b) == IF a >= b THEN a ELSE b

Min(a, b) == IF a <= b THEN a ELSE b

----------------------------------------------------------------------------
(* The Board collaborator *)

BoardWidth == 4

BoardHeight == 4

Players == {"self", "opp"}

Directions == << <<-2, -1>>, <<-2, 1>>, <<-1, -2>>, <<-1, 2>>,
                 <<1, -2>>, <<1, 2>>, <<2, -1>>, <<2, 1>> >>

\* An enumeration of the cells of the board: (3, 3), the two cells a knight
\* reaches from it, and on from there.
CellOrder == << <<3, 3>>, <<1, 2>>, <<2, 1>>, <<3, 1>>, <<0, 2>>, <<1, 0>>,
                <<2, 3>>, <<0, 0>>, <<2, 2>>, <<2, 0>>, <<1, 3>>, <<0, 1>>,
                <<3, 2>>, <<1, 1>>, <<0, 3>>, <<3, 0>> >>

Arena == {CellOrder[i] : i \in 1..Min(ArenaSize, Len(CellOrder))}

get_opponent(player) == IF player = "self" THEN "opp" ELSE "self"

get_blank_spaces(board) == board.blank

\* The moves of `player` from its cell, in the order of Directions.
get_legal_moves(board, player) ==
    LET at == board.loc[player]
        to == [i \in 1..Len(Directions) |->
                  <<at[1] + Directions[i][1], at[2] + Directions[i][2]>>]
    IN  SelectSeq(to, LAMBDA m : m \in board.blank)

\* A new board: the active player stands on `move`, the cell is no longer
\* blank, and the turn passes to the other player.
forecast_move(board, move) ==
    [board EXCEPT !.blank = @ \ {move},
                  !.loc[board.active] = move,
                  !.active = get_opponent(board.active)]

\* Every board whose blank cells and pieces lie in the arena, with the agent
\* to move.
Boards ==
    UNION { UNION { { [width |-> BoardWidth, height |-> BoardHeight,
                       blank |-> bl, loc |-> [p \in Players |->
                                     IF p = "self" THEN a ELSE o],
                       active |-> "self"]
                     : bl \in SUBSET (Arena \ {a, o}) }
                   : o \in Arena \ {a} }
           : a \in Arena }

----------------------------------------------------------------------------
(* Heuristic evaluators *)

Heuristics == {"calc_ratio_of_moves", "calc_move_diff_with_spaces",
               "calc_move_diff_from_center"}

RECURSIVE isqrt_between(_, _, _)
isqrt_between(x, lo, hi) ==
    IF lo >= hi THEN lo
    ELSE LET mid == (lo + hi + 1) \div 2
         IN  IF mid * mid <= x THEN isqrt_between(x, mid, hi)
             ELSE isqrt_between(x, lo, mid - 1)

\* floor(Unit * sqrt(n)): math.sqrt in fixed point.
sqrt_fixed(n) == isqrt_between(n * Unit * Unit, 0, (n + 1) * Unit)

calc_ratio_of_moves(board, player) ==
    LET player_factor == 1
        opp_factor == 1
        player_moves == get_legal_moves(board, player)
        opp_moves == get_legal_moves(board, get_opponent(player))
    IN  IF opp_moves = <<>> THEN PosInf
        ELSE IF player_moves = <<>> THEN NegInf
        ELSE (player_factor * Len(player_moves) * Unit)
                 \div (opp_factor * Len(opp_moves))

calc_move_diff_with_spaces(board, player) ==
    LET player_factor == 1
        opp_factor == 2
        player_moves == get_legal_moves(board, player)
        opp_moves == get_legal_moves(board, get_opponent(player))
        open_spaces == Cardinality(get_blank_spaces(board))
        total_spaces == board.width * board.height
    IN  IF opp_moves = <<>> THEN PosInf
        ELSE IF player_moves = <<>> THEN NegInf
        ELSE (player_factor * Len(player_moves) * total_spaces * Unit)
                 \div open_spaces
             - opp_factor * Len(opp_moves) * Unit

\* What one legal destination adds to a side's score.
center_weight(board, move) ==
    LET board_center == <<board.width \div 2, board.height \div 2>>
        dx == board_center[1] - move[1]
        dy == board_center[2] - move[2]
    IN  IF move = <<3, 3>> THEN Unit
        ELSE Unit - sqrt_fixed(dx * dx + dy * dy) \div board.width

RECURSIVE center_sum(_, _, _)
center_sum(board, moves, i) ==
    IF i > Len(moves) THEN 0
    ELSE center_weight(board, moves[i]) + center_sum(board, moves, i + 1)

calc_move_diff_from_center(board, player) ==
    LET player_factor == 1
        opp_factor == 2
        player_moves == get_legal_moves(board, player)
        player_score == center_sum(board, player_moves, 1)
        opp_moves == get_legal_moves(board, get_opponent(player))
        opp_score == center_sum(board, opp_moves, 1)
    IN  IF opp_moves = <<>> THEN PosInf
        ELSE IF player_moves = <<>> THEN NegInf
        ELSE player_factor * player_score - opp_factor * opp_score

\* self.score(game, self): the evaluator chosen at construction, always from
\* the agent's point of view.
self_score(fn, board) ==
    CASE fn = "calc_ratio_of_moves" -> calc_ratio_of_moves(board, "self")
      [] fn = "calc_move_diff_with_spaces" ->
             calc_move_diff_with_spaces(board, "self")
      [] fn = "calc_move_diff_from_center" ->
             calc_move_diff_from_center(board, "self")

----------------------------------------------------------------------------
(* The Timeout guard *)

\* timeout=3 of the constructor.
TIMER_THRESHOLD == 3

\* A clock that never reads below the threshold during the call.
Never == -1

\* The caller's clock during one top-level search call: `fire` readings come
\* back at the threshold, every later one below it (the clock only
\* decreases); `reads` counts the readings taken, `evals` the heuristic
\* evaluations done.
Clock(fire) == [reads |-> 0, evals |-> 0, fire |-> fire]

\* self.time_left(): the value the next reading returns.
time_left(clk) ==
    IF clk.fire = Never \/ clk.reads < clk.fire
    THEN TIMER_THRESHOLD
    ELSE TIMER_THRESHOLD - 1

Ticked(clk) == [clk EXCEPT !.reads = @ + 1]

Evaluated(clk) == [clk EXCEPT !.evals = @ + 1]

\* How a call ends: `return score, move`, or `raise Timeout()`.
Return(s, m, clk) == [status |-> "returned", score |-> s, move |-> m, clk |-> clk]

Raise(exc, clk) == [status |-> "raised", exc |-> exc, clk |-> clk]

NoCall == [status |-> "none"]

----------------------------------------------------------------------------
(* Minimax *)

\* depth == 0 or not possible_moves
mm_terminal(depth, possible_moves) == depth = 0 \/ possible_moves = <<>>

\* curr_move_diff > highest_move_diff at a maximizing layer,
\* curr_move_diff < highest_move_diff at a minimizing one.
mm_better(maximizing_player, curr_move_diff, highest_move_diff) ==
    IF maximizing_player
    THEN curr_move_diff > highest_move_diff
    ELSE curr_move_diff < highest_move_diff

RECURSIVE minimax(_, _, _, _, _)
RECURSIVE minimax_loop(_, _, _, _, _, _, _)

\* The body of `for next_move in possible_moves`, from the i-th move on;
\* st holds highest_move_diff, overall_best_move and the clock.
minimax_loop(fn, board, depth, maximizing_player, possible_moves, i, st) ==
    IF i > Len(possible_moves)
    THEN Return(st.highest_move_diff, st.overall_best_move, st.clk)
    ELSE LET next_move == possible_moves[i]
             temp_board == forecast_move(board, next_move)
             child == minimax(fn, temp_board, depth - 1, ~maximizing_player,
                              st.clk)
         IN  IF child.status = "raised" THEN child
             ELSE LET curr_move_diff == child.score
                      better == mm_better(maximizing_player, curr_move_diff,
                                          st.highest_move_diff)
                  IN  minimax_loop(fn, board, depth, maximizing_player,
                          possible_moves, i + 1,
                          [highest_move_diff |->
                               IF better THEN curr_move_diff
                               ELSE st.highest_move_diff,
                           overall_best_move |->
                               IF better THEN next_move
                               ELSE st.overall_best_move,
                           clk |-> child.clk])

minimax(fn, board, depth, maximizing_player, clk) ==
    IF time_left(clk) < TIMER_THRESHOLD
    THEN Raise("Timeout", Ticked(clk))
    ELSE LET possible_moves == get_legal_moves(board, board.active)
         IN  IF mm_terminal(depth, possible_moves)
             THEN Return(self_score(fn, board), NoMove,
                         Evaluated(Ticked(clk)))
             ELSE minimax_loop(fn, board, depth, maximizing_player,
                      possible_moves, 1,
                      [highest_move_diff |->
                           IF maximizing_player THEN NegInf ELSE PosInf,
                       overall_best_move |-> NoMove,
                       clk |-> Ticked(clk)])

----------------------------------------------------------------------------
(* Alpha-beta *)

\* A faulty variant of ab_terminal: the search goes one ply deeper than asked.
ab_terminal_one_deeper(depth, possible_moves) ==
    depth < 0 \/ possible_moves = <<>>

ab_terminal(depth, possible_moves) == depth = 0 \/ possible_moves = <<>>

ab_better(maximizing_player, curr_move_diff, highest_move_diff) ==
    IF maximizing_player
    THEN curr_move_diff > highest_move_diff
    ELSE curr_move_diff < highest_move_diff

\* overall_best_move = next_move at a maximizing layer;
\* overall_best_move = next_move, overall_best_move at a minimizing one.
ab_best_move(maximizing_player, next_move, overall_best_move) ==
    IF maximizing_player
    THEN next_move
    ELSE Tuple2(next_move, overall_best_move)

\* A faulty variant of ab_cutoff: the two bounds are swapped.
ab_cutoff_swapped(maximizing_player, highest_move_diff, alpha, beta) ==
    IF maximizing_player
    THEN highest_move_diff >= alpha
    ELSE highest_move_diff <= beta

\* highest_move_diff >= beta at a maximizing layer,
\* highest_move_diff <= alpha at a minimizing one.
ab_cutoff(maximizing_player, highest_move_diff, alpha, beta) ==
    IF maximizing_player
    THEN highest_move_diff >= beta
    ELSE highest_move_diff <= alpha

\* alpha = max(alpha, curr_move_diff), at a maximizing layer only.
ab_alpha(maximizing_player, alpha, curr_move_diff) ==
    IF maximizing_player THEN Max(alpha, curr_move_diff) ELSE alpha

\* beta = min(beta, curr_move_diff), at a minimizing layer only.
ab_beta(maximizing_player, beta, curr_move_diff) ==
    IF maximizing_player THEN beta ELSE Min(beta, curr_move_diff)

RECURSIVE alphabeta(_, _, _, _, _, _, _)
RECURSIVE alphabeta_loop(_, _, _, _, _, _, _)

\* The body of `for next_move in possible_moves`, from the i-th move on;
\* st holds alpha, beta, highest_move_diff, overall_best_move and the clock.
alphabeta_loop(fn, board, depth, maximizing_player, possible_moves, i, st) ==
    IF i > Len(possible_moves)
    THEN Return(st.highest_move_diff, st.overall_best_move, st.clk)
    ELSE LET next_move == possible_moves[i]
             temp_board == forecast_move(board, next_move)
             child == alphabeta(fn, temp_board, depth - 1, st.alpha, st.beta,
                                ~maximizing_player, st.clk)
         IN  IF child.status = "raised" THEN child
             ELSE LET curr_move_diff == child.score
                      better == ab_better(maximizing_player, curr_move_diff,
                                          st.highest_move_diff)
                      highest_move_diff ==
                          IF better THEN curr_move_diff
                          ELSE st.highest_move_diff
                      overall_best_move ==
                          IF better
                          THEN ab_best_move(maximizing_player, next_move,
                                            st.overall_best_move)
                          ELSE st.overall_best_move
                  IN  IF ab_cutoff(maximizing_player, highest_move_diff,
                                   st.alpha, st.beta)
                      THEN Return(curr_move_diff, next_move, child.clk)
                      ELSE alphabeta_loop(fn, board, depth, maximizing_player,
                               possible_moves, i + 1,
                               [alpha |-> ab_alpha(maximizing_player, st.alpha,
                                                   curr_move_diff),
                                beta |-> ab_beta(maximizing_player, st.beta,
                                                 curr_move_diff),
                                highest_move_diff |-> highest_move_diff,
                                overall_best_move |-> overall_best_move,
                                clk |-> child.clk])

alphabeta(fn, board, depth, alpha, beta, maximizing_player, clk) ==
    IF time_left(clk) < TIMER_THRESHOLD
    THEN Raise("Timeout", Ticked(clk))
    ELSE LET possible_moves == get_legal_moves(board, board.active)
         IN  IF ab_terminal(depth, possible_moves)
             THEN Return(self_score(fn, board), NoMove,
                         Evaluated(Ticked(clk)))
             ELSE alphabeta_loop(fn, board, depth, maximizing_player,
                      possible_moves, 1,
                      [alpha |-> alpha, beta |-> beta,
                       highest_move_diff |->
                           IF maximizing_player THEN NegInf ELSE PosInf,
                       overall_best_move |-> NoMove,
                       clk |-> Ticked(clk)])

----------------------------------------------------------------------------
(* CustomPlayer.__init__ and the callers' inputs *)

Methods == {"minimax", "alphabeta"}

\* search_depth=3 of the constructor.
DefaultSearchDepth == 3

\* Searches of depth DepthCap and deeper are one and the same computation:
\* a line of play is no longer than the number of blank cells, at most
\* ArenaSize - 2, so no node of such a search is cut at depth 0 while it
\* still has moves.  curr_depth, which the source increments without limit,
\* is therefore held at DepthCap.
DepthCap == ArenaSize - 1

\* The state after construction, before get_move is called.  search_depth
\* is read in fixed-depth mode only; in iterative mode it keeps its default.
Init ==
    /\ game \in Boards
    /\ score \in Heuristics
    /\ method \in Methods
    /\ iterative \in BOOLEAN
    /\ search_depth \in (IF iterative THEN {DefaultSearchDepth}
                         ELSE 1..MaxDepth)
    /\ pc = "idle"
    /\ legal_moves = get_legal_moves(game, game.active)
    /\ curr_depth = UnboundNumber
    /\ best_move_overall = UnboundMove
    /\ best_score_overall = UnboundNumber
    /\ best_round_score = UnboundNumber
    /\ best_round_move = UnboundMove
    /\ ret = UnboundMove
    /\ last = NoCall
    /\ args = [depth |-> 0, maximizing_player |-> TRUE]
    /\ mm = NoCall
    /\ ab = NoCall

\* The state in which minimax and alphabeta are called directly, as a test
\* does: a constructed player with the default configuration, a board, and
\* the depth and maximizing_player arguments of the calls.
InitSearch ==
    /\ game \in Boards
    /\ score \in Heuristics
    /\ method = "minimax"
    /\ iterative = TRUE
    /\ search_depth = DefaultSearchDepth
    /\ pc = "idle"
    /\ legal_moves = get_legal_moves(game, game.active)
    /\ curr_depth = UnboundNumber
    /\ best_move_overall = UnboundMove
    /\ best_score_overall = UnboundNumber
    /\ best_round_score = UnboundNumber
    /\ best_round_move = UnboundMove
    /\ ret = UnboundMove
    /\ last = NoCall
    /\ args \in [depth : 0..MaxDepth, maximizing_player : BOOLEAN]
    /\ mm = NoCall
    /\ ab = NoCall

----------------------------------------------------------------------------
(* CustomPlayer.get_move *)

\* A faulty variant of no_legal_moves: the test is for None, which a list never is.
no_legal_moves_is_none(moves) == FALSE

\* if not legal_moves
no_legal_moves(moves) == moves = <<>>

\* The search call of get_move: self.minimax(game, depth) or
\* self.alphabeta(game, depth), with the default arguments.
search(fn, meth, board, depth, clk) ==
    IF meth = "minimax"
    THEN minimax(fn, board, depth, TRUE, clk)
    ELSE alphabeta(fn, board, depth, NegInf, PosInf, TRUE, clk)

\* A faulty variant of except_Timeout: the clause names the built-in TimeoutError.
except_TimeoutError(outcome) ==
    outcome.status = "raised" /\ outcome.exc = "TimeoutError"

\* except Timeout: the clause catches a raised Timeout.
except_Timeout(outcome) ==
    outcome.status = "raised" /\ outcome.exc = "Timeout"

\* A faulty variant of improves: the comparison is reversed.
improves_reversed(overall, round) == overall > round

\* if best_score_overall < best_round_score
improves(overall, round) == overall < round

\* curr_depth += 1 (see DepthCap)
next_depth(d) == IF d < DepthCap THEN d + 1 ELSE d

\* The readings at which the clock can first fall below the threshold
\* during a call that takes `reads` readings when it is not interrupted.
Fires(reads) == 0..(reads - 1)

GetMove ==
    /\ pc = "idle"
    /\ IF no_legal_moves(legal_moves)
       THEN /\ pc' = "done"
            /\ ret' = NoMove
            /\ UNCHANGED <<curr_depth, best_move_overall, best_score_overall>>
       ELSE IF iterative
       THEN /\ pc' = "iter_search"
            /\ curr_depth' = 1
            /\ best_move_overall' = NoMove
            /\ best_score_overall' = NegInf
            /\ UNCHANGED ret
       ELSE /\ pc' = "fixed_search"
            /\ best_move_overall' = NoMove
            /\ UNCHANGED <<curr_depth, best_score_overall, ret>>
    /\ UNCHANGED <<game, score, method, iterative, search_depth, legal_moves,
                   best_round_score, best_round_move, last, args, mm, ab>>

\* One round of the deepening loop whose search comes back.
IterSearchReturns ==
    /\ pc = "iter_search"
    /\ LET r == search(score, method, game, curr_depth, Clock(Never))
       IN  /\ last' = r
           /\ best_round_score' = r.score
           /\ best_round_move' = r.move
           /\ pc' = "iter_update"
    /\ UNCHANGED <<game, score, method, iterative, search_depth, legal_moves,
                   curr_depth, best_move_overall, best_score_overall, ret,
                   args, mm, ab>>

\* One round of the deepening loop whose search is interrupted: break, and
\* return best_move_overall.
IterSearchTimeout ==
    /\ pc = "iter_search"
    /\ \E fire \in Fires(search(score, method, game, curr_depth,
                                Clock(Never)).clk.reads) :
         LET r == search(score, method, game, curr_depth, Clock(fire))
         IN  /\ last' = r
             /\ IF except_Timeout(r)
                THEN pc' = "done" /\ ret' = best_move_overall
                ELSE pc' = "raised" /\ UNCHANGED ret
    /\ UNCHANGED <<game, score, method, iterative, search_depth, legal_moves,
                   curr_depth, best_move_overall, best_score_overall,
                   best_round_score, best_round_move, args, mm, ab>>

\* The rest of the round: keep the round's result if it improves, deepen.
IterUpdate ==
    /\ pc = "iter_update"
    /\ IF improves(best_score_overall, best_round_score)
       THEN /\ best_move_overall' = best_round_move
            /\ best_score_overall' = best_round_score
       ELSE UNCHANGED <<best_move_overall, best_score_overall>>
    /\ curr_depth' = next_depth(curr_depth)
    /\ pc' = "iter_search"
    /\ UNCHANGED <<game, score, method, iterative, search_depth, legal_moves,
                   best_round_score, best_round_move, ret, last, args, mm, ab>>

\* The fixed-depth search comes back: get_move returns its move.
FixedSearchReturns ==
    /\ pc = "fixed_search"
    /\ LET r == search(score, method, game, search_depth, Clock(Never))
       IN  /\ last' = r
           /\ best_score_overall' = r.score
           /\ best_move_overall' = r.move
           /\ ret' = r.move
           /\ pc' = "done"
    /\ UNCHANGED <<game, score, method, iterative, search_depth, legal_moves,
                   curr_depth, best_round_score, best_round_move, args, mm, ab>>

\* The fixed-depth search is interrupted: pass, and return best_move_overall.
FixedSearchTimeout ==
    /\ pc = "fixed_search"
    /\ \E fire \in Fires(search(score, method, game, search_depth,
                                Clock(Never)).clk.reads) :
         LET r == search(score, method, game, search_depth, Clock(fire))
         IN  /\ last' = r
             /\ IF except_Timeout(r)
                THEN pc' = "done" /\ ret' = best_move_overall
                ELSE pc' = "raised" /\ UNCHANGED ret
    /\ UNCHANGED <<game, score, method, iterative, search_depth, legal_moves,
                   curr_depth, best_move_overall, best_score_overall,
                   best_round_score, best_round_move, args, mm, ab>>

Next ==
    \/ GetMove
    \/ IterSearchReturns
    \/ IterSearchTimeout
    \/ IterUpdate
    \/ FixedSearchReturns
    \/ FixedSearchTimeout

Spec == Init /\ [][Next]_vars

\* get_move leaves position p.
Advance(p) == pc = p /\ pc' \in {"iter_search", "iter_update", "fixed_search",
                                  "done", "raised"} \ {p}

\* The agent runs: get_move does not stall where it stands, it goes on to its
\* next position (a search call in progress ends, by returning or by
\* raising).  Nothing is assumed of the clock, which is the caller's.
FairSpec ==
    /\ Init /\ [][Next]_vars
    /\ WF_pc(Advance("idle"))
    /\ WF_pc(Advance("iter_search"))
    /\ WF_pc(Advance("iter_update"))
    /\ WF_pc(Advance("fixed_search"))

----------------------------------------------------------------------------
(* Direct calls of the two search methods *)

\* self.minimax(game, depth, maximizing_player)
CallMinimax ==
    /\ mm = NoCall
    /\ \E fire \in {Never} \cup
                   Fires(minimax(score, game, args.depth,
                                 args.maximizing_player, Clock(Never)).clk.reads) :
         mm' = minimax(score, game, args.depth, args.maximizing_player,
                       Clock(fire))
    /\ UNCHANGED <<game, score, method, iterative, search_depth, pc,
                   legal_moves, curr_depth, best_move_overall,
                   best_score_overall, best_round_score, best_round_move,
                   ret, last, args, ab>>

\* self.alphabeta(game, depth, maximizing_player=maximizing_player)
CallAlphabeta ==
    /\ ab = NoCall
    /\ \E fire \in {Never} \cup
                   Fires(alphabeta(score, game, args.depth, NegInf, PosInf,
                                   args.maximizing_player, Clock(Never)).clk.reads) :
         ab' = alphabeta(score, game, args.depth, NegInf, PosInf,
                         args.maximizing_player, Clock(fire))
    /\ UNCHANGED <<game, score, method, iterative, search_depth, pc,
                   legal_moves, curr_depth, best_move_overall,
                   best_score_overall, best_round_score, best_round_move,
                   ret, last, args, mm>>

NextSearch ==
    \/ CallMinimax
    \/ CallAlphabeta

SearchSpec == InitSearch /\ [][NextSearch]_vars

----------------------------------------------------------------------------
(* Properties *)

RangeOf(seq) == {seq[i] : i \in 1..Len(seq)}

Returned(outcome) == outcome.status = "returned"

\* Both direct calls came back, on the same board with the same arguments.
BothReturned == Returned(mm) /\ Returned(ab)

\* C1: at the root with the default arguments (maximizing_player = True,
\* alpha = -inf, beta = +inf), when neither call is interrupted, minimax and
\* alphabeta return the same score for the same board, heuristic and depth.
C1_SameRootScore ==
    (BothReturned /\ args.maximizing_player) => mm.score = ab.score

\* C1 witness: both calls came back with a finite score and alphabeta pruned
\* (it entered fewer nodes than minimax).
C1_Witness ==
    /\ BothReturned /\ args.maximizing_player
    /\ mm.score = ab.score
    /\ mm.score > NegInf /\ mm.score < PosInf
    /\ ab.clk.reads < mm.clk.reads

\* C7: at the root with the default arguments, when neither call is
\* interrupted, alphabeta enters no more nodes than minimax on the same
\* board, heuristic and depth (each node entered reads the clock once).
C7_NoMoreNodes ==
    (BothReturned /\ args.maximizing_player) => ab.clk.reads <= mm.clk.reads

\* C7 witness: a search of the largest depth in which alphabeta entered
\* strictly fewer nodes, and evaluated fewer positions, than minimax.
C7_Witness ==
    /\ BothReturned /\ args.maximizing_player
    /\ args.depth = MaxDepth
    /\ ab.clk.reads < mm.clk.reads
    /\ ab.clk.evals < mm.clk.evals

\* C6: on a board where the agent is to move and has no legal moves, the
\* heuristic returns -inf whatever the opponent's mobility, and minimax and
\* alphabeta, at every depth, return (-inf, (-1, -1)) when not interrupted.
C6_NoMovesIsLoss ==
    /\ (legal_moves = <<>> /\ Returned(mm)) =>
           /\ self_score(score, game) = NegInf
           /\ mm.score = NegInf /\ mm.move = NoMove
    /\ (legal_moves = <<>> /\ Returned(ab)) =>
           /\ self_score(score, game) = NegInf
           /\ ab.score = NegInf /\ ab.move = NoMove

\* The first legal move of `board`, from the i-th on, whose child position
\* evaluates to s one ply shallower; <<>> when there is none.
RECURSIVE first_move_scoring(_, _, _, _, _, _)
first_move_scoring(fn, board, depth, maximizing_player, s, i) ==
    LET moves == get_legal_moves(board, board.active)
    IN  IF i > Len(moves) THEN <<>>
        ELSE IF minimax(fn, forecast_move(board, moves[i]), depth - 1,
                        ~maximizing_player, Clock(Never)).score = s
             THEN moves[i]
             ELSE first_move_scoring(fn, board, depth, maximizing_player,
                                     s, i + 1)

\* The move the result of a search must carry: the sentinel at a terminal
\* node, otherwise the first legal move that produced the returned score.
MoveOfResult(outcome) ==
    IF args.depth = 0 \/ legal_moves = <<>>
    THEN NoMove
    ELSE first_move_scoring(score, game, args.depth, args.maximizing_player,
                            outcome.score, 1)

\* C9: the move of every (score, move) result of minimax and of alphabeta,
\* for either value of maximizing_player, is a single coordinate pair: the
\* sentinel at a terminal node, otherwise the first legal move in
\* enumeration order whose child evaluation produced the returned score.
C9_MoveOfResult ==
    /\ Returned(mm) =>
           IsCoordinatePair(mm.move) /\ mm.move = MoveOfResult(mm)
    /\ Returned(ab) =>
           IsCoordinatePair(ab.move) /\ ab.move = MoveOfResult(ab)

\* get_move is running or has run the deepening loop on a non-empty list.
Deepening == iterative /\ legal_moves # <<>> /\ pc # "idle"

\* The number of rounds of the deepening loop that have completed is
\* curr_depth - 1 (or more, once curr_depth is held at DepthCap).
SomeRoundCompleted == Deepening /\ pc \in {"iter_search", "done"} /\ curr_depth > 1

\* C2: in iterative mode get_move returns the move of the last round that
\* completed before the first Timeout.
C2_ReturnsLastRoundMove ==
    (pc = "done" /\ SomeRoundCompleted) => ret = best_round_move

\* C4: when the board has legal moves and at least one top-level search
\* call completed, get_move returns one of the board's legal moves.
C4_ReturnsLegalMove ==
    (/\ pc = "done"
     /\ legal_moves # <<>>
     /\ IF iterative THEN curr_depth > 1 ELSE Returned(last))
        => ret \in RangeOf(legal_moves)

\* C10: in iterative mode with a non-empty legal-move list get_move
\* eventually returns, in every execution, also when the clock never reads
\* below the threshold.
C10_EventuallyReturns ==
    (iterative /\ legal_moves # <<>>) => <>(pc = "done")

\* C3: a Timeout raised at any node is caught by get_move and never reaches
\* its caller; when it is raised before any top-level search call has
\* completed, get_move returns the sentinel.
C3_TimeoutCaught ==
    /\ pc # "raised"
    /\ (/\ pc = "done"
        /\ last.status = "raised"
        /\ (~iterative \/ curr_depth = 1))
           => ret = NoMove

\* C3 witness: get_move returned the sentinel after a Timeout raised below
\* the root of the first search call (at its third reading of the clock or
\* later), on a board with legal moves.
C3_Witness ==
    /\ pc = "done"
    /\ legal_moves # <<>>
    /\ last.status = "raised" /\ last.clk.reads >= 3
    /\ (~iterative \/ curr_depth = 1)
    /\ ret = NoMove

\* C5: with an empty legal_moves argument get_move returns (-1, -1) at
\* once: no search call is made, so no position is evaluated and the clock
\* is never read, whatever the mode, method and depth.
C5_EmptyReturnsAtOnce ==
    legal_moves = <<>> =>
        /\ pc \in {"idle", "done"}
        /\ last.status = "none"
        /\ pc = "done" => ret = NoMove

\* C5 witness: get_move has returned on an empty list, in fixed-depth mode
\* with alpha-beta configured.
C5_Witness ==
    /\ pc = "done" /\ legal_moves = <<>> /\ ret = NoMove
    /\ ~iterative /\ method = "alphabeta"

\* C8: in iterative mode, once k rounds have completed, the recorded best
\* score is at least the root score of a fixed-depth search of the same
\* method to depth k; across the rounds the recorded score never decreases,
\* and the recorded move changes only when the round's score is strictly
\* greater than the recorded one.
C8_RecordedScore ==
    /\ [](SomeRoundCompleted =>
            best_score_overall >=
                search(score, method, game, curr_depth - 1, Clock(Never)).score)
    /\ [][pc = "iter_update" =>
            /\ best_score_overall' >= best_score_overall
            /\ best_move_overall' # best_move_overall =>
                   /\ best_round_score > best_score_overall
                   /\ best_score_overall' = best_round_score]_vars

\* C8 witness: two rounds have completed and the recorded score, kept from
\* the first, is strictly greater than the score of the depth-2 search.
C8_Witness ==
    /\ SomeRoundCompleted /\ curr_depth = 3
    /\ best_score_overall >
           search(score, method, game, 2, Clock(Never)).score
    /\ best_score_overall =
           search(score, method, game, 1, Clock(Never)).score

====
